---- MODULE Spec2Model ----
(***************************************************************************)
(* Model of src/src/HeatmapTerreno.tsx: the seeded generation pipeline     *)
(* (mulberry32, generateHotspots, sampleHeatPoints, makeDetections), the   *)
(* grid aggregation and routing memo (routeData), the derived metrics and  *)
(* the event handlers of the component MapaCalorPropriedade.               *)
(*                                                                         *)
(* Numbers.  JavaScript doubles are modelled in fixed point:               *)
(*   - a coordinate is an integer number of units, 1 degree = DegUnits     *)
(*     units (one unit is one centimetre of latitude, 111320 m a degree);  *)
(*   - a length in metres is held in centimetres;                          *)
(*   - an amplitude, an intensity and a cosine are held in thousandths,    *)
(*     a score in millionths, a coverage in tenths of a percent, an area   *)
(*     in hundredths of a hectare;                                         *)
(*   - a 32-bit word is the pair <<high 16 bits, low 16 bits>>;            *)
(*   - the values Infinity, -Infinity and NaN that Math.min() and          *)
(*     Math.max() of an empty list give rise to are the records Inf(1),    *)
(*     Inf(-1) and NaN.                                                    *)
(***************************************************************************)
EXTENDS Integers, Sequences, FiniteSets, TLC

\* ------------------------------------------------------------------------
\* 32-bit words (Math.imul, ^, |, >>> of lines 353-360)
\* ------------------------------------------------------------------------

Half == 65536

\* x ^ y and x | y of two 4-bit digits, at index 16 x + y + 1
XorTable ==
  <<
     0, 1, 2, 3, 4, 5, 6, 7, 8, 9, 10, 11, 12, 13, 14, 15, 1, 0, 3, 2, 5, 4, 7, 6, 9, 8, 11, 10, 13, 12, 15, 14,
     2, 3, 0, 1, 6, 7, 4, 5, 10, 11, 8, 9, 14, 15, 12, 13, 3, 2, 1, 0, 7, 6, 5, 4, 11, 10, 9, 8, 15, 14, 13, 12,
     4, 5, 6, 7, 0, 1, 2, 3, 12, 13, 14, 15, 8, 9, 10, 11, 5, 4, 7, 6, 1, 0, 3, 2, 13, 12, 15, 14, 9, 8, 11, 10,
     6, 7, 4, 5, 2, 3, 0, 1, 14, 15, 12, 13, 10, 11, 8, 9, 7, 6, 5, 4, 3, 2, 1, 0, 15, 14, 13, 12, 11, 10, 9, 8,
     8, 9, 10, 11, 12, 13, 14, 15, 0, 1, 2, 3, 4, 5, 6, 7, 9, 8, 11, 10, 13, 12, 15, 14, 1, 0, 3, 2, 5, 4, 7, 6,
     10, 11, 8, 9, 14, 15, 12, 13, 2, 3, 0, 1, 6, 7, 4, 5, 11, 10, 9, 8, 15, 14, 13, 12, 3, 2, 1, 0, 7, 6, 5, 4,
     12, 13, 14, 15, 8, 9, 10, 11, 4, 5, 6, 7, 0, 1, 2, 3, 13, 12, 15, 14, 9, 8, 11, 10, 5, 4, 7, 6, 1, 0, 3, 2,
     14, 15, 12, 13, 10, 11, 8, 9, 6, 7, 4, 5, 2, 3, 0, 1, 15, 14, 13, 12, 11, 10, 9, 8, 7, 6, 5, 4, 3, 2, 1, 0
  >>

OrTable ==
  <<
     0, 1, 2, 3, 4, 5, 6, 7, 8, 9, 10, 11, 12, 13, 14, 15, 1, 1, 3, 3, 5, 5, 7, 7, 9, 9, 11, 11, 13, 13, 15, 15,
     2, 3, 2, 3, 6, 7, 6, 7, 10, 11, 10, 11, 14, 15, 14, 15, 3, 3, 3, 3, 7, 7, 7, 7, 11, 11, 11, 11, 15, 15, 15, 15,
     4, 5, 6, 7, 4, 5, 6, 7, 12, 13, 14, 15, 12, 13, 14, 15, 5, 5, 7, 7, 5, 5, 7, 7, 13, 13, 15, 15, 13, 13, 15, 15,
     6, 7, 6, 7, 6, 7, 6, 7, 14, 15, 14, 15, 14, 15, 14, 15, 7, 7, 7, 7, 7, 7, 7, 7, 15, 15, 15, 15, 15, 15, 15, 15,
     8, 9, 10, 11, 12, 13, 14, 15, 8, 9, 10, 11, 12, 13, 14, 15, 9, 9, 11, 11, 13, 13, 15, 15, 9, 9, 11, 11, 13, 13, 15, 15,
     10, 11, 10, 11, 14, 15, 14, 15, 10, 11, 10, 11, 14, 15, 14, 15, 11, 11, 11, 11, 15, 15, 15, 15, 11, 11, 11, 11, 15, 15, 15, 15,
     12, 13, 14, 15, 12, 13, 14, 15, 12, 13, 14, 15, 12, 13, 14, 15, 13, 13, 15, 15, 13, 13, 15, 15, 13, 13, 15, 15, 13, 13, 15, 15,
     14, 15, 14, 15, 14, 15, 14, 15, 14, 15, 14, 15, 14, 15, 14, 15, 15, 15, 15, 15, 15, 15, 15, 15, 15, 15, 15, 15, 15, 15, 15, 15
  >>

\* the digit of weight k (1, 16, 256 or 4096) of the operation tabulated in T
Digit(T, a, b, k) == T[((a \div k) % 16) * 16 + ((b \div k) % 16) + 1] * k

Xor16(a, b) ==
  Digit(XorTable, a, b, 1) + Digit(XorTable, a, b, 16)
    + Digit(XorTable, a, b, 256) + Digit(XorTable, a, b, 4096)

Or16(a, b) ==
  Digit(OrTable, a, b, 1) + Digit(OrTable, a, b, 16)
    + Digit(OrTable, a, b, 256) + Digit(OrTable, a, b, 4096)

\* ToInt32 of an integer, as a word (two's complement)
ToWord(n) == <<(n \div Half) % Half, n % Half>>

Xor32(a, b) == <<Xor16(a[1], b[1]), Xor16(a[2], b[2])>>
Or32(a, b) == <<Or16(a[1], b[1]), Or16(a[2], b[2])>>

Add32(a, b) ==
  LET lo == a[2] + b[2]
  IN <<(a[1] + b[1] + lo \div Half) % Half, lo % Half>>

Pow2(n) == CASE n = 1 -> 2 [] n = 2 -> 4 [] n = 7 -> 128 [] n = 9 -> 512
             [] n = 14 -> 16384 [] n = 15 -> 32768

\* a >>> n, for 0 < n < 16
ShiftRight(a, n) ==
  <<a[1] \div Pow2(n), (a[2] \div Pow2(n)) + (a[1] % Pow2(n)) * Pow2(16 - n)>>

\* the low 16 bits of x * y, without leaving 31 bits
MulLow16(x, y) == ((x % 256) * y + 256 * (((x \div 256) * y) % 256)) % Half

\* Math.imul(a, b): the low 32 bits of the product
Imul(a, b) ==
  LET p0 == (a[2] % 256) * b[2]
      p1 == (a[2] \div 256) * b[2]
      low == Add32(<<p0 \div Half, p0 % Half>>, <<(p1 \div 256) % Half, (p1 % 256) * 256>>)
      cross == (MulLow16(a[1], b[2]) + MulLow16(a[2], b[1])) % Half
  IN <<(low[1] + cross) % Half, low[2]>>

\* ------------------------------------------------------------------------
\* mulberry32 (lines 353-360).  A generator is its captured variable a,
\* kept modulo 2^32; a call adds 0x6d2b79f5 to it and returns the tempered
\* word t, standing for the double t / 4294967296 in [0, 1).
\* ------------------------------------------------------------------------

mulberry32(seed) == ToWord(seed)

\* a += 0x6d2b79f5
Advance(a) == Add32(a, <<27947, 31221>>)

\* the word returned by the call that left the generator in state a
Temper(a) ==
  LET t1 == Imul(Xor32(a, ShiftRight(a, 15)), Or32(a, <<0, 1>>))
      t2 == Xor32(t1, Add32(t1, Imul(Xor32(t1, ShiftRight(t1, 7)), Or32(t1, <<0, 61>>))))
  IN Xor32(t2, ShiftRight(t2, 14))

\* Math.floor(rnd() * n) for the returned word u and an integer 0 <= n < 2^15
RndTimes(u, n) == (u[1] * n + (u[2] * n) \div Half) \div Half

\* rnd() < p / 65536
RndBelow(u, p) == u[1] < p

\* ------------------------------------------------------------------------
\* Doubles that may be Infinity or NaN
\* ------------------------------------------------------------------------

Num(n) == [k |-> "num", v |-> n]
Inf(s) == [k |-> "inf", v |-> s]
NaN == [k |-> "nan", v |-> 0]
IsNum(x) == x.k = "num"

FNeg(x) == IF x.k = "nan" THEN NaN ELSE [k |-> x.k, v |-> 0 - x.v]

FAdd(x, y) ==
  CASE x.k = "nan" \/ y.k = "nan" -> NaN
    [] x.k = "num" /\ y.k = "num" -> Num(x.v + y.v)
    [] x.k = "inf" /\ y.k = "inf" -> IF x.v = y.v THEN x ELSE NaN
    [] x.k = "inf" -> x
    [] OTHER -> y

FSub(x, y) == FAdd(x, FNeg(y))

Sign(n) == IF n > 0 THEN 1 ELSE IF n < 0 THEN -1 ELSE 0

\* rnd() * x for the returned word u: the product is floored to a whole unit
FRnd(u, x) ==
  CASE x.k = "nan" -> NaN
    [] x.k = "num" -> Num(RndTimes(u, x.v))
    [] OTHER -> IF u = <<0, 0>> THEN NaN ELSE x

RECURSIVE MinOf(_)
MinOf(s) == IF Len(s) = 1 THEN s[1]
            ELSE LET m == MinOf(Tail(s)) IN IF s[1] < m THEN s[1] ELSE m

RECURSIVE MaxOf(_)
MaxOf(s) == IF Len(s) = 1 THEN s[1]
            ELSE LET m == MaxOf(Tail(s)) IN IF s[1] > m THEN s[1] ELSE m

\* Math.min(...xs), Math.max(...xs)
MathMin(xs) == IF xs = <<>> THEN Inf(1) ELSE Num(MinOf(xs))
MathMax(xs) == IF xs = <<>> THEN Inf(-1) ELSE Num(MaxOf(xs))

Xs(polygon) == [i \in 1..Len(polygon) |-> polygon[i][1]]
Ys(polygon) == [i \in 1..Len(polygon) |-> polygon[i][2]]

Min2(a, b) == IF a < b THEN a ELSE b
Max2(a, b) == IF a > b THEN a ELSE b

\* ------------------------------------------------------------------------
\* Units and the two transcendental functions
\* ------------------------------------------------------------------------

\* units in a degree: 111320 m (lines 384-385), in centimetres
DegUnits == 11132000

\* round(1000 * cos(d degrees)) for d = 0..90, at index d + 1
CosTable ==
  <<
     1000, 1000, 999, 999, 998, 996, 995, 993, 990, 988, 985, 982, 978, 974, 970, 966,
     961, 956, 951, 946, 940, 934, 927, 921, 914, 906, 899, 891, 883, 875, 866, 857,
     848, 839, 829, 819, 809, 799, 788, 777, 766, 755, 743, 731, 719, 707, 695, 682,
     669, 656, 643, 629, 616, 602, 588, 574, 559, 545, 530, 515, 500, 485, 469, 454,
     438, 423, 407, 391, 375, 358, 342, 326, 309, 292, 276, 259, 242, 225, 208, 191,
     174, 156, 139, 122, 105, 87, 70, 52, 35, 17, 0
  >>

\* Math.cos((lat * Math.PI) / 180), in thousandths; lat in units
CosMilli(lat) ==
  LET d == (IF lat < 0 THEN 0 - lat ELSE lat) \div DegUnits
  IN CosTable[d + 1]

\* round(1000 * exp(-x / 2)) for x = 0, 0.1, .. 16, at index 10 x + 1
ExpTable ==
  <<
     1000, 951, 905, 861, 819, 779, 741, 705, 670, 638, 607, 577, 549, 522, 497, 472,
     449, 427, 407, 387, 368, 350, 333, 317, 301, 287, 273, 259, 247, 235, 223, 212,
     202, 192, 183, 174, 165, 157, 150, 142, 135, 129, 122, 116, 111, 105, 100, 95,
     91, 86, 82, 78, 74, 71, 67, 64, 61, 58, 55, 52, 50, 47, 45, 43,
     41, 39, 37, 35, 33, 32, 30, 29, 27, 26, 25, 24, 22, 21, 20, 19,
     18, 17, 17, 16, 15, 14, 14, 13, 12, 12, 11, 11, 10, 10, 9, 9,
     8, 8, 7, 7, 7, 6, 6, 6, 6, 5, 5, 5, 5, 4, 4, 4,
     4, 4, 3, 3, 3, 3, 3, 3, 2, 2, 2, 2, 2, 2, 2, 2,
     2, 2, 2, 1, 1, 1, 1, 1, 1, 1, 1, 1, 1, 1, 1, 1,
     1, 1, 1, 1, 1, 1, 1, 1, 1, 0, 0, 0, 0, 0, 0, 0,
     0
  >>

\* Math.exp(-d2 / 2), in thousandths; d2 in ten-thousandths
ExpMilli(d2) ==
  LET i == d2 \div 1000
  IN IF i + 1 > Len(ExpTable) THEN 0 ELSE ExpTable[i + 1]

\* metersToDegreesLat (line 384): m in centimetres, the result in units
metersToDegreesLat(m) == m

\* metersToDegreesLng (line 385)
metersToDegreesLng(m, lat) == (m * 1000) \div CosMilli(lat)

Abs(n) == IF n < 0 THEN 0 - n ELSE n

\* ------------------------------------------------------------------------
\* pointInPolygon (lines 341-351): ray casting over the edges (j, i), j the
\* vertex before i and the last vertex for i = 1.  The quotient of the edge
\* test is compared exactly, by cross-multiplication.
\* ------------------------------------------------------------------------

EdgeCrossed(point, polygon, i) ==
  LET j == IF i = 1 THEN Len(polygon) ELSE i - 1
      x == point[1]
      y == point[2]
      xi == polygon[i][1]
      yi == polygon[i][2]
      xj == polygon[j][1]
      yj == polygon[j][2]
      lhs == (x - xi) * (yj - yi)
      rhs == (xj - xi) * (y - yi)
  IN /\ (yi > y) # (yj > y)
     /\ IF yj - yi > 0 THEN lhs < rhs ELSE lhs > rhs

pointInPolygon(point, polygon) ==
  Cardinality({i \in 1..Len(polygon) : EdgeCrossed(point, polygon, i)}) % 2 = 1

\* pointInPolygon of a candidate whose coordinates may be NaN: every
\* comparison with NaN is false, so no edge is crossed
CandidateCrossed(lng, lat, polygon, i) ==
  /\ IsNum(lng)
  /\ IsNum(lat)
  /\ EdgeCrossed(<<lng.v, lat.v>>, polygon, i)

\* a faulty CandidateInside: any candidate of the bounding box is accepted
CandidateInBox(lng, lat, polygon) == IsNum(lng) /\ IsNum(lat)

CandidateInside(lng, lat, polygon) ==
  Cardinality({i \in 1..Len(polygon) : CandidateCrossed(lng, lat, polygon, i)}) % 2 = 1

\* minx + rnd() * (maxx - minx), lines 373-374 and 399-400
Between(lo, hi, u) == FAdd(lo, FRnd(u, FSub(hi, lo)))

\* ------------------------------------------------------------------------
\* generateHotspots (lines 362-382)
\* ------------------------------------------------------------------------

\* the attempt cap of line 371
MaxTries == 5000

\* ampRange and spreadRange of line 363: [0.6, 1.0] in thousandths and
\* [25, 80] metres in centimetres
AmpMin == 600
AmpMax == 1000
SpreadMin == 2500
SpreadMax == 8000

\* one turn of the while loop of lines 371-380; st = [a, hotspots, tries]
HotspotAttempt(st, polygon) ==
  LET a1 == Advance(st.a)
      a2 == Advance(a1)
      a3 == Advance(a2)
      a4 == Advance(a3)
      lng == Between(MathMin(Xs(polygon)), MathMax(Xs(polygon)), Temper(a1))
      lat == Between(MathMin(Ys(polygon)), MathMax(Ys(polygon)), Temper(a2))
  IN IF CandidateInside(lng, lat, polygon)
     THEN [a |-> a4,
           hotspots |-> Append(st.hotspots,
              [lng |-> lng.v, lat |-> lat.v,
               amp |-> AmpMin + RndTimes(Temper(a3), AmpMax - AmpMin),
               spread |-> SpreadMin + RndTimes(Temper(a4), SpreadMax - SpreadMin),
               passada |-> "pre"]),
           tries |-> st.tries + 1]
     ELSE [a |-> a2, hotspots |-> st.hotspots, tries |-> st.tries + 1]

\* a faulty HotspotContinue: the cap is compared with <=
HotspotContinueOneMore(st, count) == Len(st.hotspots) < count /\ st.tries <= MaxTries

\* the loop condition of line 371
HotspotContinue(st, count) == Len(st.hotspots) < count /\ st.tries < MaxTries

\* the while loop, run for at most n turns: the state half that the first
\* half of the turns ends in is the state the second half starts from
RECURSIVE HotspotLoop(_, _, _, _)
HotspotLoop(st, polygon, count, n) ==
  IF ~HotspotContinue(st, count) THEN st
  ELSE IF n <= 1 THEN HotspotAttempt(st, polygon)
  ELSE CHOOSE end \in {HotspotLoop(half, polygon, count, n - n \div 2) :
                         half \in {HotspotLoop(st, polygon, count, n \div 2)}} : TRUE

\* the state of the loop when generateHotspots returns
generateHotspotsRun(polygon, count, seed) ==
  HotspotLoop([a |-> mulberry32(seed), hotspots |-> <<>>, tries |-> 0],
              polygon, count, 2 * MaxTries)

generateHotspots(polygon, count, seed) ==
  generateHotspotsRun(polygon, count, seed).hotspots

\* ------------------------------------------------------------------------
\* sampleHeatPoints (lines 387-416; the first revision, lines 53-81)
\* ------------------------------------------------------------------------

\* the cap of lines 395 and 640 on the number of samples (30000 in the
\* source); the model runs the same loop under a small cap
MaxSamples == 2

\* the factor of the attempt bound of line 397
GuardFactor == 20

\* lines 402-411: the clamped sum of the hotspots' contributions at
\* (lng, lat), in millionths
RECURSIVE HeatSum(_, _, _, _)
HeatSum(hotspots, i, lng, lat) ==
  IF i > Len(hotspots) THEN 0
  ELSE LET h == hotspots[i]
           dx == metersToDegreesLng(h.spread, h.lat)
           dy == metersToDegreesLat(h.spread)
           nx == (Abs(lng - h.lng) * 100) \div dx
           ny == (Abs(lat - h.lat) * 100) \div dy
           d2 == nx * nx + ny * ny
       IN ExpMilli(d2) * h.amp + HeatSum(hotspots, i + 1, lng, lat)

\* a faulty Clamp01: the sum is clamped from below only
ClampBelow(w) == Max2(0, w)

Clamp01(w) == Max2(0, Min2(1000000, w))

\* Number(w.toFixed(3)): millionths rounded to thousandths
ToFixed3(w) == (w + 500) \div 1000

\* the generator state a after n more calls: n times the increment of line
\* 355, modulo 2^32
AdvanceBy(a, n) == Add32(a, Imul(ToWord(n), <<27947, 31221>>))

\* a faulty SampleAttempt: the loop over the hotspots draws a value from
\* rnd for each hotspot
SampleAttemptDrawing(st, polygon, hotspots) ==
  LET a1 == Advance(st.a)
      a2 == Advance(a1)
      lng == Between(MathMin(Xs(polygon)), MathMax(Xs(polygon)), Temper(a1))
      lat == Between(MathMin(Ys(polygon)), MathMax(Ys(polygon)), Temper(a2))
  IN IF ~CandidateInside(lng, lat, polygon)
     THEN [a |-> a2, points |-> st.points, generated |-> st.generated,
           guard |-> st.guard + 1]
     ELSE [a |-> AdvanceBy(a2, Len(hotspots)),
           points |-> Append(st.points,
              <<lat.v, lng.v, ToFixed3(Clamp01(HeatSum(hotspots, 1, lng.v, lat.v)))>>),
           generated |-> st.generated + 1,
           guard |-> st.guard + 1]

\* one turn of the while loop of lines 397-414;
\* st = [a, points, generated, guard]
SampleAttempt(st, polygon, hotspots) ==
  LET a1 == Advance(st.a)
      a2 == Advance(a1)
      lng == Between(MathMin(Xs(polygon)), MathMax(Xs(polygon)), Temper(a1))
      lat == Between(MathMin(Ys(polygon)), MathMax(Ys(polygon)), Temper(a2))
  IN IF ~CandidateInside(lng, lat, polygon)
     THEN [a |-> a2, points |-> st.points, generated |-> st.generated,
           guard |-> st.guard + 1]
     ELSE [a |-> a2,
           points |-> Append(st.points,
              <<lat.v, lng.v, ToFixed3(Clamp01(HeatSum(hotspots, 1, lng.v, lat.v)))>>),
           generated |-> st.generated + 1,
           guard |-> st.guard + 1]

\* the loop condition of line 397
SampleContinue(st, target) ==
  st.generated < target /\ st.guard < target * GuardFactor

RECURSIVE SampleLoop(_, _, _, _, _)
SampleLoop(st, polygon, hotspots, target, n) ==
  IF ~SampleContinue(st, target) THEN st
  ELSE IF n <= 1 THEN SampleAttempt(st, polygon, hotspots)
  ELSE CHOOSE end \in {SampleLoop(half, polygon, hotspots, target, n - n \div 2) :
                         half \in {SampleLoop(st, polygon, hotspots, target, n \div 2)}} : TRUE

\* seed ^ 0x9e3779b1 (line 389)
SampleSeed(seed) == Xor32(ToWord(seed), <<40503, 31153>>)

\* line 395
SampleTarget(samples) == Min2(samples, MaxSamples)

\* the state of the loop when sampleHeatPoints returns
sampleHeatPointsRun(polygon, hotspots, seed, samples) ==
  SampleLoop([a |-> SampleSeed(seed), points |-> <<>>, generated |-> 0, guard |-> 0],
             polygon, hotspots, SampleTarget(samples),
             2 * GuardFactor * SampleTarget(samples) + 2)

sampleHeatPoints(polygon, hotspots, seed, samples) ==
  sampleHeatPointsRun(polygon, hotspots, seed, samples).points

\* the first revision's sampleHeatPoints (lines 53-81): the same loop, run
\* against samples itself (line 62)
sampleHeatPointsRun1(polygon, hotspots, seed, samples) ==
  SampleLoop([a |-> SampleSeed(seed), points |-> <<>>, generated |-> 0, guard |-> 0],
             polygon, hotspots, samples, 2 * GuardFactor * samples + 2)

\* ------------------------------------------------------------------------
\* makeDetections (lines 507-527)
\* ------------------------------------------------------------------------

HourMs == 3600000

\* toFixed(5) of a coordinate in degrees, in 1e-5 degrees
ToFixed5(x) == 25 * (x \div 2783) + (50 * (x % 2783) + 2783) \div 5566

\* lines 513-517: the jittered point <<lng, lat>> of a detection of hotspot
\* h, drawn by the first three of the six calls that follow the state a
JitterPoint(h, a) ==
  LET a1 == Advance(a)
      a2 == Advance(a1)
      a3 == Advance(a2)
      jitterM == (h.spread * (350 + RndTimes(Temper(a1), 400))) \div 1000
      mLng == metersToDegreesLng(jitterM, h.lat)
      mLat == metersToDegreesLat(jitterM)
      dx == RndTimes(Temper(a2), 2 * mLng) - mLng
      dy == RndTimes(Temper(a3), 2 * mLat) - mLat
  IN <<h.lng + dx, h.lat + dy>>

\* a faulty Detection: line 518 is missing and the jittered point is kept
\* wherever it falls
DetectionUnsnapped(h, i, a, polygon, now) ==
  LET a4 == Advance(Advance(Advance(Advance(a))))
      a5 == Advance(a4)
      a6 == Advance(a5)
      jittered == JitterPoint(h, a)
      classe == IF RndBelow(Temper(a4), 49152) THEN "erva" ELSE "doenca"
  IN [id |-> <<ToFixed5(h.lng), ToFixed5(h.lat), i>>,
      lat |-> jittered[2],
      lng |-> jittered[1],
      ts |-> now - RndTimes(Temper(a6), 72) * HourMs,
      passada |-> h.passada,
      classe |-> classe,
      conf |-> 60 + (RndTimes(Temper(a5), 76) + 1) \div 2,
      img |-> IF classe = "erva" THEN "IMG_ERVA" ELSE "IMG_DOENCA"]

\* lines 513-523: the detection of index i of hotspot h, drawn by the six
\* calls that take the generator from a to the sixth state after it.  The
\* ISO string of line 521 is held as the millisecond count it prints.
Detection(h, i, a, polygon, now) ==
  LET a4 == Advance(Advance(Advance(Advance(a))))
      a5 == Advance(a4)
      a6 == Advance(a5)
      classe == IF RndBelow(Temper(a4), 49152) THEN "erva" ELSE "doenca"
  IN CHOOSE d \in {[id |-> <<ToFixed5(h.lng), ToFixed5(h.lat), i>>,
                     lat |-> IF inside THEN jittered[2] ELSE h.lat,
                     lng |-> IF inside THEN jittered[1] ELSE h.lng,
                     ts |-> now - RndTimes(Temper(a6), 72) * HourMs,
                     passada |-> h.passada,
                     classe |-> classe,
                     conf |-> 60 + (RndTimes(Temper(a5), 76) + 1) \div 2,
                     img |-> IF classe = "erva" THEN "IMG_ERVA" ELSE "IMG_DOENCA"] :
                      jittered \in {JitterPoint(h, a)},
                      inside \in {pointInPolygon(JitterPoint(h, a), polygon)}} : TRUE

Advance6(a) == Advance(Advance(Advance(Advance(Advance(Advance(a))))))

\* a faulty DetectionsOf: the loop of line 512 runs while i <= k
RECURSIVE DetectionsOfOneMore(_, _, _, _, _, _, _)
DetectionsOfOneMore(h, i, k, a, polygon, now, acc) ==
  IF i > k THEN [a |-> a, detections |-> acc]
  ELSE DetectionsOfOneMore(h, i + 1, k, Advance6(a), polygon, now,
                           Append(acc, Detection(h, i, a, polygon, now)))

\* the inner loop of lines 512-524, from index i; returns [a, detections]
RECURSIVE DetectionsOf(_, _, _, _, _, _, _)
DetectionsOf(h, i, k, a, polygon, now, acc) ==
  IF i >= k THEN [a |-> a, detections |-> acc]
  ELSE DetectionsOf(h, i + 1, k, Advance6(a), polygon, now,
                    Append(acc, Detection(h, i, a, polygon, now)))

\* the outer loop of lines 510-525, from hotspot j
RECURSIVE DetectionLoop(_, _, _, _, _, _)
DetectionLoop(hotspots, j, a, polygon, now, acc) ==
  IF j > Len(hotspots) THEN acc
  ELSE LET a1 == Advance(a)
           k == 1 + RndTimes(Temper(a1), 3)
       IN CHOOSE end \in {DetectionLoop(hotspots, j + 1, r.a, polygon, now, r.detections) :
                           r \in {DetectionsOf(hotspots[j], 0, k, a1, polygon, now, acc)}} : TRUE

\* seed ^ 0x1b873593 (line 508)
DetectionSeed(seed) == Xor32(ToWord(seed), <<7047, 13715>>)

\* now is the value of Date.now() during the call
makeDetections(hotspots, polygon, seed, now) ==
  DetectionLoop(hotspots, 1, DetectionSeed(seed), polygon, now, <<>>)

\* ------------------------------------------------------------------------
\* Derived metrics
\* ------------------------------------------------------------------------

\* const threshold = 0.65 (line 654), in thousandths
Threshold == 650

RECURSIVE SumIntensity(_, _)
SumIntensity(points, i) ==
  IF i > Len(points) THEN 0 ELSE points[i][3] + SumIntensity(points, i + 1)

\* n / d rounded to the nearest integer (toFixed), for n >= 0 and d > 0
RoundDiv(n, d) == (2 * n + d) \div (2 * d)

\* a faulty coverage: the samples are counted without the threshold
coverageOfAll(heatPoints) == IF Len(heatPoints) = 0 THEN 0 ELSE 1000

\* coverage (lines 656-660), in tenths of a percent
coverage(heatPoints) ==
  IF Len(heatPoints) = 0 THEN 0
  ELSE RoundDiv(1000 * Cardinality({i \in 1..Len(heatPoints) : heatPoints[i][3] >= Threshold}),
                Len(heatPoints))

\* meanIntensity (lines 697-701), in tenths of a percent
meanIntensity(heatPoints) ==
  IF Len(heatPoints) = 0 THEN 0
  ELSE RoundDiv(SumIntensity(heatPoints, 1), Len(heatPoints))

\* areaHa (lines 662-672), in hundredths of a hectare.  latCenter is NaN for
\* an empty polygon (Infinity + -Infinity); its cosine, the products and the
\* toFixed(2) string "NaN" read back by Number are NaN then.
areaHa(polygon) ==
  LET minLng == MathMin(Xs(polygon))
      maxLng == MathMax(Xs(polygon))
      minLat == MathMin(Ys(polygon))
      maxLat == MathMax(Ys(polygon))
      latSum == FAdd(minLat, maxLat)
  IN IF ~IsNum(latSum) THEN NaN
     ELSE LET latCenter == latSum.v \div 2
              widthM == ((maxLng.v - minLng.v) * CosMilli(latCenter)) \div 1000
              heightM == maxLat.v - minLat.v
              areaM2 == Abs(widthM * heightM)
          IN Num(RoundDiv(areaM2, 1000000))

\* focosPorHa of the first revision (lines 215-218), in hundredths:
\* !areaHa holds of 0 and of NaN
focosPorHa(count, area) ==
  IF ~IsNum(area) \/ area.v = 0 THEN Num(0)
  ELSE Num(RoundDiv(count * 10000, area.v))

\* the density of line 932, in hundredths: Math.max(0.001, areaHa) is NaN
\* when areaHa is, and so are the quotient and Number(toFixed(2)) of it
density(count, area) ==
  IF ~IsNum(area) THEN NaN
  ELSE IF area.v = 0 THEN Num(count * 100000)
  ELSE Num(RoundDiv(count * 10000, area.v))

\* riskLabel (lines 728-732)
riskLabel(cov) ==
  IF cov >= 600 THEN "Alto" ELSE IF cov >= 300 THEN "Medio" ELSE "Baixo"

\* ------------------------------------------------------------------------
\* haversine (lines 599-609), in centimetres, for points a few hundred
\* metres apart: sin(d / 2) is d / 2 and asin(x) is x at the model's
\* resolution, so the distance is R * sqrt(dLat^2 + cos a cos b dLng^2).
\* ------------------------------------------------------------------------

RECURSIVE SqrtBetween(_, _, _)
SqrtBetween(n, lo, hi) ==
  IF lo >= hi THEN lo
  ELSE LET mid == (lo + hi + 1) \div 2
       IN IF mid * mid <= n THEN SqrtBetween(n, mid, hi) ELSE SqrtBetween(n, lo, mid - 1)

\* Math.floor(Math.sqrt(n)), 0 <= n < 2^31
Isqrt(n) == SqrtBetween(n, 0, 46340)

\* a and b are <<lat, lng>>; R * pi / 180 is 0.9989 of the 111320 m of a degree
haversine(a, b) ==
  LET dLat == Abs(b[1] - a[1])
      dLng == Abs(b[2] - a[2])
      A == dLat * dLat
             + ((dLng * CosMilli(a[1])) \div 1000) * ((dLng * CosMilli(b[1])) \div 1000)
  IN (Isqrt(A) * 9989) \div 10000

\* ------------------------------------------------------------------------
\* routeData (lines 784-895)
\* ------------------------------------------------------------------------

\* geojson: null and kml: "" of lines 785 and 850
GeoNull == [type |-> "null"]
KmlEmpty == <<>>

\* a faulty EmptyRoute: the return of line 850 written as that of line 785
EmptyRouteNoCells(cells) ==
  [cells |-> <<>>, selected |-> <<>>, path |-> <<>>, geojson |-> GeoNull, kml |-> KmlEmpty]

EmptyRoute(cells) ==
  [cells |-> cells, selected |-> <<>>, path |-> <<>>, geojson |-> GeoNull, kml |-> KmlEmpty]

\* a faulty Grid: Math.floor in place of the Math.ceil of lines 796-797
GridFloor(polygon, gridSize) ==
  LET minLng == MinOf(Xs(polygon))
      maxLng == MaxOf(Xs(polygon))
      minLat == MinOf(Ys(polygon))
      maxLat == MaxOf(Ys(polygon))
      latCenter == (minLat + maxLat) \div 2
      dLng == metersToDegreesLng(gridSize * 100, latCenter)
      dLat == metersToDegreesLat(gridSize * 100)
  IN [minLng |-> minLng, minLat |-> minLat, dLng |-> dLng, dLat |-> dLat,
      nx |-> Max2(1, (maxLng - minLng) \div dLng),
      ny |-> Max2(1, (maxLat - minLat) \div dLat)]

\* the grid of lines 787-797 over the bounding box of a non-empty polygon;
\* gridSize is in metres
Grid(polygon, gridSize) ==
  LET minLng == MinOf(Xs(polygon))
      maxLng == MaxOf(Xs(polygon))
      minLat == MinOf(Ys(polygon))
      maxLat == MaxOf(Ys(polygon))
      latCenter == (minLat + maxLat) \div 2
      dLng == metersToDegreesLng(gridSize * 100, latCenter)
      dLat == metersToDegreesLat(gridSize * 100)
  IN [minLng |-> minLng, minLat |-> minLat, dLng |-> dLng, dLat |-> dLat,
      nx |-> Max2(1, (maxLng - minLng + dLng - 1) \div dLng),
      ny |-> Max2(1, (maxLat - minLat + dLat - 1) \div dLat)]

\* lines 802-805 and 812-815: the key of a position, or <<>> when line 804
\* or 814 skips it
KeyOf(g, lng, lat) ==
  LET ix == (lng - g.minLng) \div g.dLng
      iy == (lat - g.minLat) \div g.dLat
  IN IF ix < 0 \/ iy < 0 \/ ix >= g.nx \/ iy >= g.ny THEN <<>> ELSE <<ix, iy>>

\* acc is the object of line 799 as the sequence of its entries in the
\* order the keys were created, the order for..in visits them in
IndexOfKey(acc, key) ==
  LET hits == {i \in 1..Len(acc) : acc[i].key = key}
  IN IF hits = {} THEN 0 ELSE CHOOSE i \in hits : TRUE

\* lines 805-808 (w, 1, 0) and 815-817 (0, 0, 1)
Accumulate(acc, key, w, n, det) ==
  LET i == IndexOfKey(acc, key)
  IN IF i = 0
     THEN Append(acc, [key |-> key, wSum |-> w, wCount |-> n, det |-> det])
     ELSE [acc EXCEPT ![i] = [key |-> key, wSum |-> @.wSum + w,
                              wCount |-> @.wCount + n, det |-> @.det + det]]

\* the loop of lines 801-809, from sample i
RECURSIVE BucketSamples(_, _, _, _)
BucketSamples(acc, g, heatPoints, i) ==
  IF i > Len(heatPoints) THEN acc
  ELSE LET key == KeyOf(g, heatPoints[i][2], heatPoints[i][1])
       IN BucketSamples(IF key = <<>> THEN acc
                        ELSE Accumulate(acc, key, heatPoints[i][3], 1, 0),
                        g, heatPoints, i + 1)

\* the loop of lines 811-818, from detection i
RECURSIVE BucketDetections(_, _, _, _)
BucketDetections(acc, g, detections, i) ==
  IF i > Len(detections) THEN acc
  ELSE LET key == KeyOf(g, detections[i].lng, detections[i].lat)
       IN BucketDetections(IF key = <<>> THEN acc ELSE Accumulate(acc, key, 0, 0, 1),
                           g, detections, i + 1)

\* a faulty MaxDet: the count of the first entry in place of the maximum
MaxDetOfFirst(acc, i) == IF i > Len(acc) THEN 0 ELSE acc[i].det

\* lines 827-828
RECURSIVE MaxDet(_, _)
MaxDet(acc, i) == IF i > Len(acc) THEN 0 ELSE Max2(acc[i].det, MaxDet(acc, i + 1))

\* lines 831-844: the cell of an entry; wAvg and score in millionths
CellOf(a, g, maxDet) ==
  LET ix == a.key[1]
      iy == a.key[2]
      minx == g.minLng + ix * g.dLng
      miny == g.minLat + iy * g.dLat
      maxx == minx + g.dLng
      maxy == miny + g.dLat
      wAvg == IF a.wCount # 0 THEN (a.wSum * 1000) \div a.wCount ELSE 0
      detN == IF maxDet > 0 THEN (a.det * 1000000) \div maxDet ELSE 0
  IN [ix |-> ix, iy |-> iy, lat |-> (miny + maxy) \div 2, lng |-> (minx + maxx) \div 2,
      wAvg |-> wAvg, det |-> a.det, score |-> (7 * wAvg + 3 * detN) \div 10,
      bbox |-> <<minx, miny, maxx, maxy>>]

\* a faulty Cells: line 839 is missing and every entry becomes a cell
RECURSIVE CellsKept(_, _, _, _, _)
CellsKept(acc, g, polygon, maxDet, i) ==
  IF i > Len(acc) THEN <<>>
  ELSE <<CellOf(acc[i], g, maxDet)>> \o CellsKept(acc, g, polygon, maxDet, i + 1)

\* the loop of lines 830-845, from entry i: line 839 drops the cells whose
\* centroid is outside the polygon
RECURSIVE Cells(_, _, _, _, _)
Cells(acc, g, polygon, maxDet, i) ==
  IF i > Len(acc) THEN <<>>
  ELSE LET c == CellOf(acc[i], g, maxDet)
           rest == Cells(acc, g, polygon, maxDet, i + 1)
       IN IF pointInPolygon(<<c.lng, c.lat>>, polygon) THEN <<c>> \o rest ELSE rest

\* cells.sort((a, b) => b.score - a.score) of line 847: Array.prototype.sort
\* is stable, so cells of equal score keep their order
RECURSIVE InsertByScore(_, _)
InsertByScore(sorted, c) ==
  IF sorted = <<>> THEN <<c>>
  ELSE IF sorted[1].score >= c.score THEN <<sorted[1]>> \o InsertByScore(Tail(sorted), c)
  ELSE <<c>> \o sorted

\* a faulty SortByScore: line 847 is missing and the cells keep the order
\* of their buckets
SortByScoreOmitted(cells, n) == SubSeq(cells, 1, n)

RECURSIVE SortByScore(_, _)
SortByScore(cells, n) ==
  IF n = 0 THEN <<>> ELSE InsertByScore(SortByScore(cells, n - 1), cells[n])

\* s.slice(0, n) for an integer n
Slice(s, n) ==
  SubSeq(s, 1, IF n < 0 THEN Max2(Len(s) + n, 0) ELSE Min2(n, Len(s)))

\* a faulty Nearest: the route follows the score order, whatever the distances
NearestInScoreOrder(current, remaining, i, bestIdx, bestD) == 1

\* lines 857-862: the index (from 1) of the first cell of remaining nearest
\* to current; d < bestD keeps the earlier of two cells at the same distance
RECURSIVE Nearest(_, _, _, _, _)
Nearest(current, remaining, i, bestIdx, bestD) ==
  IF i > Len(remaining) THEN bestIdx
  ELSE LET d == haversine(<<current.lat, current.lng>>,
                          <<remaining[i].lat, remaining[i].lng>>)
       IN IF bestD < 0 \/ d < bestD
          THEN Nearest(current, remaining, i + 1, i, d)
          ELSE Nearest(current, remaining, i + 1, bestIdx, bestD)

RemoveAt(s, i) == SubSeq(s, 1, i - 1) \o SubSeq(s, i + 1, Len(s))

\* a faulty Visit: the cell left is pushed in place of the cell reached
RECURSIVE VisitFrom(_, _, _)
VisitFrom(current, remaining, path) ==
  IF remaining = <<>> THEN path
  ELSE LET i == Nearest(current, remaining, 1, 1, -1)
       IN VisitFrom(remaining[i], RemoveAt(remaining, i),
                    Append(path, [lat |-> current.lat, lng |-> current.lng]))

\* the loop of lines 856-865; bestD = Infinity is held as -1
RECURSIVE Visit(_, _, _)
Visit(current, remaining, path) ==
  IF remaining = <<>> THEN path
  ELSE LET i == Nearest(current, remaining, 1, 1, -1)
       IN Visit(remaining[i], RemoveAt(remaining, i),
                Append(path, [lat |-> remaining[i].lat, lng |-> remaining[i].lng]))

\* lines 852-855
Path(selected) ==
  Visit(selected[1], Tail(selected), <<[lat |-> selected[1].lat, lng |-> selected[1].lng]>>)

\* the ring of lines 869 and 888
Ring(bbox) ==
  <<<<bbox[1], bbox[2]>>, <<bbox[3], bbox[2]>>, <<bbox[3], bbox[4]>>,
    <<bbox[1], bbox[4]>>, <<bbox[1], bbox[2]>>>>

\* a faulty GeoJson: the LineString is written in the (lat, lng) order of the
\* returned path
GeoJsonLatLng(selected, path, gridSize) ==
  [type |-> "FeatureCollection",
   features |->
     [i \in 1..Len(selected) |->
        [type |-> "Feature",
         geometry |-> [type |-> "Polygon", coordinates |-> <<Ring(selected[i].bbox)>>],
         properties |-> [rank |-> i, score |-> ToFixed3(selected[i].score),
                         wAvg |-> ToFixed3(selected[i].wAvg), det |-> selected[i].det,
                         centroid |-> <<selected[i].lng, selected[i].lat>>,
                         gridSize |-> gridSize]]]
     \o <<[type |-> "Feature",
           geometry |-> [type |-> "LineString",
                         coordinates |-> [i \in 1..Len(path) |-> <<path[i].lat, path[i].lng>>]],
           properties |-> [name |-> "Roteiro de pulverizacao"]]>>]

\* lines 867-883
GeoJson(selected, path, gridSize) ==
  [type |-> "FeatureCollection",
   features |->
     [i \in 1..Len(selected) |->
        [type |-> "Feature",
         geometry |-> [type |-> "Polygon", coordinates |-> <<Ring(selected[i].bbox)>>],
         properties |-> [rank |-> i, score |-> ToFixed3(selected[i].score),
                         wAvg |-> ToFixed3(selected[i].wAvg), det |-> selected[i].det,
                         centroid |-> <<selected[i].lng, selected[i].lat>>,
                         gridSize |-> gridSize]]]
     \o <<[type |-> "Feature",
           geometry |-> [type |-> "LineString",
                         coordinates |-> [i \in 1..Len(path) |-> <<path[i].lng, path[i].lat>>]],
           properties |-> [name |-> "Roteiro de pulverizacao"]]>>]

\* a faulty Kml: a Placemark is named by the index i of line 886, from 0
KmlFromZero(selected, path) ==
  [i \in 1..Len(selected) |->
     [name |-> i - 1, score |-> ToFixed3(selected[i].score),
      wAvg |-> ToFixed3(selected[i].wAvg),
      det |-> selected[i].det, coordinates |-> Ring(selected[i].bbox)]]
  \o <<[name |-> "Roteiro",
        coordinates |-> [i \in 1..Len(path) |-> <<path[i].lng, path[i].lat, 0>>]]>>

\* lines 885-892: the Placemarks of the document, the route last
Kml(selected, path) ==
  [i \in 1..Len(selected) |->
     [name |-> i, score |-> ToFixed3(selected[i].score), wAvg |-> ToFixed3(selected[i].wAvg),
      det |-> selected[i].det, coordinates |-> Ring(selected[i].bbox)]]
  \o <<[name |-> "Roteiro",
        coordinates |-> [i \in 1..Len(path) |-> <<path[i].lng, path[i].lat, 0>>]]>>

\* the numbered markers of lines 996-1010, one for each selected cell
Markers(selected) ==
  [i \in 1..Len(selected) |->
     [position |-> <<selected[i].lat, selected[i].lng>>, number |-> i]]

\* the memo of lines 784-895
routeData(heatPoints, activeDetections, polygon, gridSize, topN) ==
  IF Len(heatPoints) = 0 THEN EmptyRoute(<<>>)
  ELSE LET g == Grid(polygon, gridSize)
           acc == BucketDetections(BucketSamples(<<>>, g, heatPoints, 1),
                                   g, activeDetections, 1)
           unsorted == Cells(acc, g, polygon, MaxDet(acc, 1), 1)
           cells == SortByScore(unsorted, Len(unsorted))
           selected == Slice(cells, Min2(topN, Len(cells)))
       IN IF Len(selected) = 0 THEN EmptyRoute(cells)
          ELSE LET path == Path(selected)
               IN [cells |-> cells, selected |-> selected,
                   path |-> [i \in 1..Len(path) |-> <<path[i].lat, path[i].lng>>],
                   geojson |-> GeoJson(selected, path, gridSize),
                   kml |-> Kml(selected, path)]

\* ------------------------------------------------------------------------
\* The component MapaCalorPropriedade (lines 611-1055) and, beside it, the
\* memos of its first revision (lines 144-242) over the same inputs
\* ------------------------------------------------------------------------

VARIABLES
  seed,           \* useState of line 612
  samples,        \* line 613
  hotspotCount,   \* line 616
  polygon,        \* line 617
  selected,       \* line 618
  detShown,       \* line 619
  doseLHa,        \* line 621
  precoPorL,      \* line 622
  perdaHa,        \* line 623
  eficacia,       \* line 624, in hundredths
  gridSize,       \* line 626
  topN,           \* line 627
  clock,          \* Date.now()
  hotspotsAll,    \* the memo of line 633
  hotspotTries,   \* tries (line 370) at the return of the calls of lines 629-631
  detectionsAll,  \* the memo of line 636
  heatPoints,     \* the memo of lines 641-644
  sampleGuard,    \* guard (line 396) at the return of the call of line 642
  route,          \* the memo routeData of lines 784-895
  first,          \* the first revision: hotspots (152), tries, heatPoints (153), guard
  rndState,       \* the variable a (line 353) of each generator mulberry32 returned
  rndOut          \* the values each generator has returned, in the order of the calls

inputs == <<seed, samples, hotspotCount, polygon>>
controls == <<selected, detShown, doseLHa, precoPorL, perdaHa, eficacia, gridSize, topN>>
memos == <<hotspotsAll, hotspotTries, detectionsAll, heatPoints, sampleGuard, route, first>>
generators == <<rndState, rndOut>>
vars == <<inputs, controls, clock, memos, generators>>

\* ---- bounds of the model ----

\* hotspotCount ranges over 0..MaxHotspots
MaxHotspots == 1

Passadas == {"pre", "plantio", "adubo"}

\* the corner of EX_POLYGON (lines 583-588), in units
ExLng == -587545050
ExLat == -292472022

\* a field of 24000 by 8000 units with the corner and the vertex order of
\* EX_POLYGON, and a triangular field at 60 degrees north
Field == <<<<ExLng, ExLat>>, <<ExLng + 24000, ExLat>>,
           <<ExLng + 24000, ExLat - 8000>>, <<ExLng, ExLat - 8000>>>>
Triangle == <<<<0, 60 * DegUnits>>, <<24000, 60 * DegUnits>>, <<0, 60 * DegUnits + 8000>>>>

\* the seed whose generator for the first pass (seed + 11) returns 0 at its
\* first call: seed + 11 + 0x6d2b79f5 = 0
ZeroSeed == 0 - 1831565813 - 11

Seeds == {1234567, 42, ZeroSeed}
Polygons == {Field, Triangle}
HotspotCounts == 0..MaxHotspots
SampleCounts == {0, MaxSamples, MaxSamples + 1}
GridSizes == {20, 40}
TopNs == {0, 2, 8}

\* two instants an hour apart
Clock0 == 200 * HourMs
Clocks == {Clock0, Clock0 + HourMs}

\* ---- the memos as functions of the state ----

WithPassada(hs, p) == [i \in 1..Len(hs) |-> [hs[i] EXCEPT !.passada = p]]

\* line 634 and line 637
Active(s, sel) == 
  LET F[i \in 0..Len(s)] == 
        IF i = 0 THEN <<>> 
        ELSE IF s[i].passada \in sel THEN Append(F[i - 1], s[i]) ELSE F[i - 1]
  IN F[Len(s)]

activeHotspots == Active(hotspotsAll, selected)
activeDetections == Active(detectionsAll, selected)

\* line 638
visibleDetections == Slice(activeDetections, 120)

\* line 640
effectiveSamples(n) == Min2(n, MaxSamples)

\* lines 629-633: the three runs of generateHotspots
HotspotRuns(poly, count, sd) ==
  <<generateHotspotsRun(poly, count, sd + 11),
    generateHotspotsRun(poly, count, sd + 22),
    generateHotspotsRun(poly, count, sd + 33)>>

HotspotsOf(runs) ==
  WithPassada(runs[1].hotspots, "pre") \o WithPassada(runs[2].hotspots, "plantio")
    \o WithPassada(runs[3].hotspots, "adubo")

\* lines 152-153
FirstSampled(h, poly, sd, n) ==
  CHOOSE r \in {[hotspots |-> h.hotspots, tries |-> h.tries, heatPoints |-> s.points,
                  guard |-> s.guard] :
                 s \in {sampleHeatPointsRun1(poly, h.hotspots, sd, n)}} : TRUE

FirstRevision(poly, count, sd, n) ==
  CHOOSE r \in {FirstSampled(h, poly, sd, n) :
                 h \in {generateHotspotsRun(poly, count, sd)}} : TRUE

\* a render after selected, gridSize or topN changed: the memos whose
\* dependencies changed are computed again (lines 634, 637, 644, 895)
Rerender(sel, grid, top) ==
  /\ IF sel = selected
     THEN UNCHANGED <<heatPoints, sampleGuard>>
     ELSE \E run \in {sampleHeatPointsRun(polygon, Active(hotspotsAll, sel), seed,
                                          effectiveSamples(samples))} :
             /\ heatPoints' = run.points
             /\ sampleGuard' = run.guard
  /\ route' = routeData(heatPoints', Active(detectionsAll, sel), polygon, grid, top)
  /\ UNCHANGED <<hotspotsAll, hotspotTries, detectionsAll, first>>

\* ---- the initial state ----

\* detShown: null of line 619
DetNull == [type |-> "null"]

\* the initial values of lines 618-627
InitialControls(sel, det, dose, preco, perda, efic, grid, top) ==
  /\ sel = Passadas
  /\ det = DetNull
  /\ dose = 2
  /\ preco = 45
  /\ perda = 600
  /\ efic = 70
  /\ grid = 40
  /\ top = 8

InitInputs ==
  /\ seed \in Seeds
  /\ samples \in SampleCounts
  /\ hotspotCount \in HotspotCounts
  /\ polygon \in Polygons

\* generators of their own beside the pipeline's: two made from the same
\* seed and one made from another seed
Instances == {"one", "two", "other"}
SeedOf(g) == IF g = "other" THEN seed + 11 ELSE seed

\* mulberry32(SeedOf(g)) for each instance, not called yet
InitGenerators ==
  /\ rndState = [g \in Instances |-> mulberry32(SeedOf(g))]
  /\ rndOut = [g \in Instances |-> <<>>]

\* the memos of the first render, in the order React computes them
InitGeneration ==
  \E runs \in {HotspotRuns(polygon, hotspotCount, seed)} :
     /\ hotspotsAll = HotspotsOf(runs)
     /\ hotspotTries = <<runs[1].tries, runs[2].tries, runs[3].tries>>
     /\ detectionsAll = makeDetections(hotspotsAll, polygon, seed + 99, clock)

\* the memos of the first revision over the same inputs
InitFirst == first = FirstRevision(polygon, hotspotCount, seed, samples)

InitSampling ==
  \E run \in {sampleHeatPointsRun(polygon, activeHotspots, seed, effectiveSamples(samples))} :
     /\ heatPoints = run.points
     /\ sampleGuard = run.guard

InitRoute == route = routeData(heatPoints, activeDetections, polygon, gridSize, topN)

\* the component as mounted: the state after the first render
InitApp ==
  /\ InitInputs
  /\ InitialControls(selected, detShown, doseLHa, precoPorL, perdaHa, eficacia, gridSize, topN)
  /\ clock = Clock0
  /\ InitGeneration
  /\ InitFirst
  /\ InitSampling
  /\ InitRoute
  /\ InitGenerators

\* the pipeline for any grid size and top-N: as InitApp, with the two
\* parameters of the routing pass drawn from GridSizes and TopNs
Init ==
  /\ InitInputs
  /\ InitialControls(selected, detShown, doseLHa, precoPorL, perdaHa, eficacia, 40, 8)
  /\ clock = Clock0
  /\ InitGeneration
  /\ InitFirst
  /\ InitSampling
  /\ gridSize \in GridSizes
  /\ topN \in TopNs
  /\ InitRoute
  /\ InitGenerators

\* polygons no point is inside of (no vertex at all, and the two ends of a
\* segment), beside the triangular field
Segment == <<<<ExLng, ExLat>>, <<ExLng + 24000, ExLat>>>>
CapPolygons == {<<>>, Segment, Triangle}

\* the component mounted over a polygon that may be degenerate: the attempt
\* caps of lines 371 and 397 end the loops then
InitCap ==
  /\ seed = 1234567
  /\ hotspotCount \in {0, MaxHotspots}
  /\ polygon \in CapPolygons
  /\ InitialControls(selected, detShown, doseLHa, precoPorL, perdaHa, eficacia, gridSize, topN)
  /\ clock = Clock0
  /\ InitGeneration
  /\ \E h \in {generateHotspotsRun(polygon, hotspotCount, seed)} :
        /\ samples \in SampleCounts
        /\ first = FirstSampled(h, polygon, seed, samples)
  /\ InitSampling
  /\ InitRoute
  /\ InitGenerators

\* ---- the actions ----

\* the component is mounted again, at the current time: every useState
\* takes its initial value and every memo is computed
Mount ==
  \E runs \in {HotspotRuns(polygon, hotspotCount, seed)} :
    \E run \in {sampleHeatPointsRun(polygon, HotspotsOf(runs), seed,
                                     effectiveSamples(samples))} :
       /\ InitialControls(selected', detShown', doseLHa', precoPorL', perdaHa', eficacia',
                          gridSize', topN')
       /\ hotspotsAll' = HotspotsOf(runs)
       /\ hotspotTries' = <<runs[1].tries, runs[2].tries, runs[3].tries>>
       /\ detectionsAll' = makeDetections(hotspotsAll', polygon, seed + 99, clock)
       /\ heatPoints' = run.points
       /\ sampleGuard' = run.guard
       /\ route' = routeData(heatPoints', detectionsAll', polygon, gridSize', topN')
       /\ first' = FirstRevision(polygon, hotspotCount, seed, samples)
       /\ UNCHANGED <<generators, inputs, clock>>

\* time passes
Tick ==
  /\ clock' \in {c \in Clocks : c > clock}
  /\ UNCHANGED <<generators, inputs, controls, memos>>

\* a faulty ToggleChip: the detections depend on the selection too, and
\* makeDetections runs again at every click
ToggleChipRemaking(p) ==
  /\ selected' = IF p \in selected THEN selected \ {p} ELSE selected \cup {p}
  /\ detectionsAll' = makeDetections(hotspotsAll, polygon, seed + 99, clock)
  /\ \E run \in {sampleHeatPointsRun(polygon, Active(hotspotsAll, selected'), seed,
                                       effectiveSamples(samples))} :
        /\ heatPoints' = run.points
        /\ sampleGuard' = run.guard
  /\ route' = routeData(heatPoints', Active(detectionsAll', selected'), polygon, gridSize, topN)
  /\ UNCHANGED <<hotspotsAll, hotspotTries, first>>
  /\ UNCHANGED <<generators, inputs, clock, detShown, doseLHa, precoPorL, perdaHa, eficacia, gridSize, topN>>

\* a faulty Toggled: the click only ever selects the pass
ToggledOn(s, p) == s \cup {p}

\* the updater a Chip's onClick passes to setSelected (lines 915-917)
Toggled(s, p) == IF p \in s THEN s \ {p} ELSE s \cup {p}

\* the onClick of a Chip (lines 915-917)
ToggleChip(p) ==
  /\ selected' = Toggled(selected, p)
  /\ Rerender(selected', gridSize, topN)
  /\ UNCHANGED <<generators, inputs, clock, detShown, doseLHa, precoPorL, perdaHa, eficacia, gridSize, topN>>

\* a faulty SetGridSize: the detections depend on the grid size too, and
\* makeDetections runs again at every edit
SetGridSizeRemaking(v) ==
  /\ gridSize' = Max2(10, v)
  /\ detectionsAll' = makeDetections(hotspotsAll, polygon, seed + 99, clock)
  /\ route' = routeData(heatPoints, Active(detectionsAll', selected), polygon, gridSize', topN)
  /\ UNCHANGED <<hotspotsAll, hotspotTries, heatPoints, sampleGuard, first>>
  /\ UNCHANGED <<generators, inputs, clock, selected, detShown, doseLHa, precoPorL, perdaHa, eficacia, topN>>

\* the onChange of the inputs of lines 944 and 949; v is Number(e.target.value)
SetGridSize(v) ==
  /\ gridSize' = Max2(10, v)
  /\ Rerender(selected, gridSize', topN)
  /\ UNCHANGED <<generators, inputs, clock, selected, detShown, doseLHa, precoPorL, perdaHa, eficacia, topN>>

\* a faulty SetTopN: the value is clamped from above only
SetTopNBelowOne(v) ==
  /\ topN' = Min2(20, v)
  /\ Rerender(selected, gridSize, topN')
  /\ UNCHANGED <<generators, inputs, clock, selected, detShown, doseLHa, precoPorL, perdaHa,
                 eficacia, gridSize>>

SetTopN(v) ==
  /\ topN' = Max2(1, Min2(20, v))
  /\ Rerender(selected, gridSize, topN')
  /\ UNCHANGED <<generators, inputs, clock, selected, detShown, doseLHa, precoPorL, perdaHa, eficacia,
                 gridSize>>

\* the onChange of the inputs of the EconomicCard (lines 561-574)
SetDoseLHa(v) ==
  /\ doseLHa' = v
  /\ UNCHANGED <<generators, inputs, clock, memos, selected, detShown, precoPorL, perdaHa, eficacia,
                 gridSize, topN>>

SetPrecoPorL(v) ==
  /\ precoPorL' = v
  /\ UNCHANGED <<generators, inputs, clock, memos, selected, detShown, doseLHa, perdaHa, eficacia,
                 gridSize, topN>>

SetPerdaHa(v) ==
  /\ perdaHa' = v
  /\ UNCHANGED <<generators, inputs, clock, memos, selected, detShown, doseLHa, precoPorL, eficacia,
                 gridSize, topN>>

\* the range input gives a whole number of hundredths, 40 to 95
SetEficacia(v) ==
  /\ eficacia' = v
  /\ UNCHANGED <<generators, inputs, clock, memos, selected, detShown, doseLHa, precoPorL, perdaHa,
                 gridSize, topN>>

\* a faulty ClickDetection: the markers are drawn for every detection, the
\* deselected passes' too
ClickDetectionAny(i) ==
  /\ i \in 1..Len(detectionsAll)
  /\ detShown' = detectionsAll[i]
  /\ UNCHANGED <<generators, inputs, clock, memos, selected, doseLHa, precoPorL, perdaHa, eficacia,
                 gridSize, topN>>

\* the click handler of a CircleMarker (line 1023)
ClickDetection(i) ==
  /\ i \in 1..Len(visibleDetections)
  /\ detShown' = visibleDetections[i]
  /\ UNCHANGED <<generators, inputs, clock, memos, selected, doseLHa, precoPorL, perdaHa, eficacia,
                 gridSize, topN>>

\* the backdrop and the close button (lines 1045-1046), rendered while
\* detShown is not null
ClosePanel ==
  /\ detShown # DetNull
  /\ detShown' = DetNull
  /\ UNCHANGED <<generators, inputs, clock, memos, selected, doseLHa, precoPorL, perdaHa, eficacia,
                 gridSize, topN>>

\* the pipeline under the category filter, for any inputs
Next == \E p \in Passadas : ToggleChip(p)

Spec == Init /\ [][Next]_vars

\* the pipeline run again, at the same instant or later
NextRerun ==
  \/ Mount
  \/ Tick
  \/ \E p \in Passadas : ToggleChip(p)

SpecRerun == InitApp /\ [][NextRerun]_vars

\* values typed into the inputs of lines 944 and 949
GridInputs == {5, 20}
TopInputs == {0, 2, 25}

\* the chips and the controls of the routing pass
NextCap ==
  \/ \E p \in Passadas : ToggleChip(p)
  \/ \E v \in GridInputs : SetGridSize(v)
  \/ \E v \in TopInputs : SetTopN(v)

SpecCap == InitCap /\ [][NextCap]_vars

\* values typed into the inputs of the page: lines 944 and 949, and the
\* EconomicCard's (lines 561-574; eficacia in hundredths)
AppGridInputs == {20}
AppTopInputs == {2}
DoseInputs == {3}
PrecoInputs == {50}
PerdaInputs == {650}
EficaciaInputs == {80}

\* the page some time after it was mounted: the memos are those of the
\* first render, made at Clock0, and the clock has advanced since
InitUi ==
  /\ seed = 1234567
  /\ samples = MaxSamples
  /\ hotspotCount = 1
  /\ polygon = Field
  /\ InitialControls(selected, detShown, doseLHa, precoPorL, perdaHa, eficacia, gridSize, topN)
  /\ clock = Clock0 + HourMs
  /\ \E runs \in {HotspotRuns(polygon, hotspotCount, seed)} :
        /\ hotspotsAll = HotspotsOf(runs)
        /\ hotspotTries = <<runs[1].tries, runs[2].tries, runs[3].tries>>
        /\ detectionsAll = makeDetections(hotspotsAll, polygon, seed + 99, Clock0)
  /\ InitFirst
  /\ InitSampling
  /\ InitRoute
  /\ InitGenerators

\* every handler of the page
NextUi ==
  \/ \E p \in Passadas : ToggleChip(p)
  \/ \E v \in AppGridInputs : SetGridSize(v)
  \/ \E v \in AppTopInputs : SetTopN(v)
  \/ \E v \in DoseInputs : SetDoseLHa(v)
  \/ \E v \in PrecoInputs : SetPrecoPorL(v)
  \/ \E v \in PerdaInputs : SetPerdaHa(v)
  \/ \E v \in EficaciaInputs : SetEficacia(v)
  \/ \E i \in 1..Len(visibleDetections) : ClickDetection(i)
  \/ ClosePanel

SpecUi == InitUi /\ [][NextUi]_vars

\* each instance is called at most MaxCalls times
MaxCalls == 4

\* a faulty Call: the state a is one variable shared by every generator
CallShared(g) ==
  /\ Len(rndOut[g]) < MaxCalls
  /\ rndState' = [h \in Instances |-> Advance(rndState[g])]
  /\ rndOut' = [rndOut EXCEPT ![g] = Append(@, Temper(rndState'[g]))]
  /\ UNCHANGED <<inputs, controls, clock, memos>>

\* one call of the function mulberry32 returned (lines 354-359) on the
\* instance g: a += 0x6d2b79f5 on g's own a, and the tempered value
Call(g) ==
  /\ Len(rndOut[g]) < MaxCalls
  /\ rndState' = [rndState EXCEPT ![g] = Advance(@)]
  /\ rndOut' = [rndOut EXCEPT ![g] = Append(@, Temper(rndState'[g]))]
  /\ UNCHANGED <<inputs, controls, clock, memos>>

\* the generators beside a pipeline without hotspots or samples
InitRnd ==
  /\ seed \in Seeds
  /\ samples = 0
  /\ hotspotCount = 0
  /\ polygon = Field
  /\ InitialControls(selected, detShown, doseLHa, precoPorL, perdaHa, eficacia, gridSize, topN)
  /\ clock = Clock0
  /\ InitGeneration
  /\ InitFirst
  /\ InitSampling
  /\ InitRoute
  /\ InitGenerators

\* the calls on the three instances, in any order
NextRnd == \E g \in Instances : Call(g)

SpecRnd == InitRnd /\ [][NextRnd]_vars

\* ------------------------------------------------------------------------
\* Properties
\* ------------------------------------------------------------------------

\* C1: running the generation pipeline again with identical inputs, at
\* whatever moment, yields identical hotspot, heat-sample and detection
\* sequences, field for field, each detection's timestamp included.  The
\* inputs never change, so no step may change the hotspots or the
\* detections, nor the heat samples while the same chips are selected.
C1_RerunIdentical ==
  [][/\ hotspotsAll' = hotspotsAll
     /\ first' = first
     /\ selected' = selected => heatPoints' = heatPoints
     /\ detectionsAll' = detectionsAll]_vars

\* the hotspots of the run of generateHotspots for the pass p
HotspotsOfPass(p) == Active(hotspotsAll, {p})

\* C2: every hotspot generateHotspots returns satisfies
\* pointInPolygon([lng, lat], polygon); no rejected candidate is pushed.
C2_HotspotsInside ==
  /\ \A i \in 1..Len(hotspotsAll) :
        pointInPolygon(<<hotspotsAll[i].lng, hotspotsAll[i].lat>>, polygon)
  /\ \A i \in 1..Len(first.hotspots) :
        pointInPolygon(<<first.hotspots[i].lng, first.hotspots[i].lat>>, polygon)

\* a run that rejected a candidate and returned a hotspot
C2_Witness ==
  /\ hotspotTries[2] > Len(HotspotsOfPass("plantio"))
  /\ Len(HotspotsOfPass("plantio")) > 0

\* C3: every heat sample sampleHeatPoints returns has an intensity between
\* 0 and 1 inclusive and a position inside the polygon, also where the
\* hotspots' summed contributions exceed 1; in both revisions.
C3_SamplesClamped ==
  \A points \in {heatPoints, first.heatPoints} :
    \A i \in 1..Len(points) :
      /\ points[i][3] >= 0
      /\ points[i][3] <= 1000
      /\ pointInPolygon(<<points[i][2], points[i][1]>>, polygon)

\* a sample at which the contributions sum to more than 1
C3_Witness ==
  \E i \in 1..Len(heatPoints) :
    /\ HeatSum(activeHotspots, 1, heatPoints[i][2], heatPoints[i][1]) > 1000000
    /\ heatPoints[i][3] = 1000

\* C4: after a routing pass the route has exactly min(topN, number of
\* scored cells) points and is a permutation without duplicates of the
\* selected cells' centroids.
C4_RoutePermutation ==
  LET sel == route.selected
      path == route.path
  IN /\ Len(path) = Min2(topN, Len(route.cells))
     /\ Len(sel) = Len(path)
     /\ \A i \in 1..Len(sel) :
           Cardinality({j \in 1..Len(path) : path[j] = <<sel[i].lat, sel[i].lng>>}) = 1
     /\ \A j \in 1..Len(path) : \E i \in 1..Len(sel) : path[j] = <<sel[i].lat, sel[i].lng>>

\* a route of two points over more than two scored cells
C4_Witness ==
  /\ topN = 2
  /\ Len(route.cells) > 2
  /\ Len(route.path) = 2
  /\ route.path[1] # route.path[2]

\* the number of heat samples bucketed into the cell c (lines 801-809)
SamplesIn(c) ==
  Cardinality({i \in 1..Len(heatPoints) :
                 KeyOf(Grid(polygon, gridSize), heatPoints[i][2], heatPoints[i][1])
                   = <<c.ix, c.iy>>})

RECURSIVE SumSamples(_, _)
SumSamples(cells, i) ==
  IF i > Len(cells) THEN 0 ELSE SamplesIn(cells[i]) + SumSamples(cells, i + 1)

\* a heat sample whose bucket has its centroid outside the polygon
InDiscardedBucket(i) ==
  LET g == Grid(polygon, gridSize)
      key == KeyOf(g, heatPoints[i][2], heatPoints[i][1])
      c == CellOf([key |-> key, wSum |-> 0, wCount |-> 1, det |-> 0], g, 0)
  IN key # <<>> /\ ~pointInPolygon(<<c.lng, c.lat>>, polygon)

\* C5: the per-cell sample counts of the output cells sum to at most the
\* number of heat samples, and to less exactly when a bucket holding
\* samples has its centroid outside the polygon and is discarded.
C5_SampleCounts ==
  Len(heatPoints) > 0 =>
    /\ SumSamples(route.cells, 1) <= Len(heatPoints)
    /\ SumSamples(route.cells, 1) < Len(heatPoints)
         <=> \E i \in 1..Len(heatPoints) : InDiscardedBucket(i)

\* samples in a discarded bucket beside samples in a kept one
C5_Witness ==
  /\ \E i \in 1..Len(heatPoints) : InDiscardedBucket(i)
  /\ \E i \in 1..Len(heatPoints) : ~InDiscardedBucket(i)
  /\ SumSamples(route.cells, 1) > 0

\* C8: with topN = 0 and heat samples, the routing pass returns an empty
\* selection and an empty route, no export payload, and the scored cells.
C8_TopZero ==
  (topN = 0 /\ Len(heatPoints) > 0) =>
    /\ route.selected = <<>>
    /\ route.path = <<>>
    /\ route.geojson = GeoNull
    /\ route.kml = KmlEmpty
    /\ route.cells = routeData(heatPoints, activeDetections, polygon, gridSize, 1).cells

\* topN = 0 over a grid with scored cells
C8_Witness ==
  /\ topN = 0
  /\ Len(heatPoints) > 0
  /\ Len(route.cells) > 1

\* C9: while the active hotspot set is empty (hotspot count 0, or every
\* chip deselected), every heat sample has intensity 0, coverage is 0 %
\* and the risk label is "Baixo".
C9_NoActiveHotspots ==
  activeHotspots = <<>> =>
    /\ \A i \in 1..Len(heatPoints) : heatPoints[i][3] = 0
    /\ coverage(heatPoints) = 0
    /\ riskLabel(coverage(heatPoints)) = "Baixo"

\* every chip deselected over generated hotspots, with samples drawn
C9_Witness ==
  /\ selected = {}
  /\ Len(hotspotsAll) > 0
  /\ Len(heatPoints) > 0

\* the passes in the order of the calls of lines 629-631
PassOrder == <<"pre", "plantio", "adubo">>

\* C6: generateHotspots ends after at most 5000 attempts, returns at most
\* count hotspots, and fewer than count only when all 5000 attempts were
\* used; the result is a value, never an exception.
C6_AttemptCap ==
  /\ \A r \in 1..3 :
        /\ hotspotTries[r] <= MaxTries
        /\ Len(HotspotsOfPass(PassOrder[r])) <= hotspotCount
        /\ Len(HotspotsOfPass(PassOrder[r])) < hotspotCount => hotspotTries[r] = MaxTries
  /\ first.tries <= MaxTries
  /\ Len(first.hotspots) <= hotspotCount
  /\ Len(first.hotspots) < hotspotCount => first.tries = MaxTries

\* a run that used every attempt and returned fewer hotspots than asked
C6_Witness ==
  /\ hotspotCount > 0
  /\ hotspotTries[1] = MaxTries
  /\ Len(HotspotsOfPass("pre")) < hotspotCount

\* C7: sampleHeatPoints clamps the requested count to target =
\* min(samples, cap), makes at most 20 * target attempts, and returns at
\* most target samples, fewer only when the attempts were exhausted; in
\* both revisions.
C7_SampleCap ==
  LET target == Min2(samples, MaxSamples)
  IN /\ Len(heatPoints) <= target
     /\ sampleGuard <= GuardFactor * target
     /\ Len(heatPoints) < target => sampleGuard = GuardFactor * target
     /\ Len(first.heatPoints) <= target
     /\ first.guard <= GuardFactor * target
     /\ Len(first.heatPoints) < target => first.guard = GuardFactor * target

\* C10: for zero-length inputs (empty polygon, empty hotspot set, no heat
\* samples) the pipeline produces zero output, and coverage, mean intensity
\* and hotspot density per hectare are 0, in both revisions.
C10_ZeroInputs ==
  /\ polygon = <<>> =>
        /\ hotspotsAll = <<>> /\ detectionsAll = <<>> /\ heatPoints = <<>>
        /\ route = EmptyRoute(<<>>)
        /\ first.hotspots = <<>> /\ first.heatPoints = <<>>
  /\ heatPoints = <<>> => coverage(heatPoints) = 0 /\ meanIntensity(heatPoints) = 0
  /\ first.heatPoints = <<>> => coverage(first.heatPoints) = 0
  /\ (polygon = <<>> \/ activeHotspots = <<>>) =>
        density(Len(activeHotspots), areaHa(polygon)) = Num(0)
  /\ (polygon = <<>> \/ first.hotspots = <<>>) =>
        focosPorHa(Len(first.hotspots), areaHa(polygon)) = Num(0)

\* C11: whenever a GeoJSON export exists, it has one feature per selected
\* cell and one LineString after them, and the LineString's coordinates
\* are the (lng, lat) centroids of the cell features' centroid properties,
\* each once, in the order of the route.
C11_GeoJsonRoundTrip ==
  route.geojson # GeoNull =>
    LET features == route.geojson.features
        n == Len(route.selected)
        line == features[n + 1].geometry
    IN /\ Len(features) = n + 1
       /\ \A i \in 1..n : features[i].geometry.type = "Polygon"
       /\ line.type = "LineString"
       /\ Len(line.coordinates) = n
       /\ \A i \in 1..n :
             Cardinality({j \in 1..n :
                            line.coordinates[j] = features[i].properties.centroid}) = 1
       /\ \A j \in 1..n :
             line.coordinates[j] = <<route.path[j][2], route.path[j][1]>>

\* an export over two cells or more
C11_Witness ==
  /\ route.geojson # GeoNull
  /\ Len(route.selected) >= 2
  /\ Len(route.geojson.features) = Len(route.selected) + 1

\* the (lat, lng) positions of a sequence of heat samples
Positions(points) == [i \in 1..Len(points) |-> <<points[i][1], points[i][2]>>]

\* C12: the sample stream is independent of the hotspot stream: the
\* sequence of heat-sample positions depends only on polygon, seed and
\* target count, so it is the sequence sampled with no hotspot at all,
\* whatever the hotspot count and the active hotspot set.
C12_SamplePositions ==
  Positions(heatPoints)
    = Positions(sampleHeatPoints(polygon, <<>>, seed, effectiveSamples(samples)))

\* samples whose intensities the active hotspots decide, two or more
C12_Witness ==
  /\ Len(activeHotspots) > 0
  /\ Len(heatPoints) >= 2
  /\ \E i \in 1..Len(heatPoints) : heatPoints[i][3] > 0

\* C13: two generators made by mulberry32 from the same seed return the
\* same sequence under any interleaving of the calls on them and on other
\* instances: the n-th value of one is the n-th value of the other.
C13_SameSeedSameSequence ==
  \A n \in 1..Min2(Len(rndOut["one"]), Len(rndOut["two"])) :
    rndOut["one"][n] = rndOut["two"][n]

\* the two instances called a different number of times, the other
\* instance called as well
C13_Witness ==
  /\ Len(rndOut["one"]) >= 2
  /\ Len(rndOut["two"]) >= 1
  /\ Len(rndOut["one"]) # Len(rndOut["two"])
  /\ Len(rndOut["other"]) >= 1

\* C14: after any sequence of edits of the grid-size and top-N inputs,
\* from the initial 40 and 8, the stored grid size is at least 10 and the
\* stored top-N is between 1 and 20.
C14_ControlsInRange ==
  /\ gridSize >= 10
  /\ topN >= 1
  /\ topN <= 20

\* both inputs edited to values out of range and clamped
C14_Witness ==
  /\ gridSize = 10
  /\ topN = 20

\* the point lies on the edge of the polygon that ends at vertex i
OnEdge(point, poly, i) ==
  LET j == IF i = 1 THEN Len(poly) ELSE i - 1
      x == point[1]
      y == point[2]
      xi == poly[i][1]
      yi == poly[i][2]
      xj == poly[j][1]
      yj == poly[j][2]
  IN /\ (x - xi) * (yj - yi) = (xj - xi) * (y - yi)
     /\ Min2(xi, xj) <= x /\ x <= Max2(xi, xj)
     /\ Min2(yi, yj) <= y /\ y <= Max2(yi, yj)

StrictlyInside(point, poly) ==
  /\ pointInPolygon(point, poly)
  /\ \A i \in 1..Len(poly) : ~OnEdge(point, poly, i)

\* C15: every hotspot generateHotspots returns lies strictly inside the
\* poly, never on an edge or a vertex of it, whatever values the
\* generator draws in [0, 1), 0 included.
C15_StrictlyInside ==
  \A i \in 1..Len(hotspotsAll) :
    StrictlyInside(<<hotspotsAll[i].lng, hotspotsAll[i].lat>>, polygon)

\* the centroid of the i-th selected cell, as a point of the route
CentroidOf(i) == <<route.selected[i].lat, route.selected[i].lng>>

\* the selected cells the first k - 1 points of the route have not visited
Unvisited(k) ==
  {i \in 1..Len(route.selected) : \A m \in 1..(k - 1) : route.path[m] # CentroidOf(i)}

\* C16: the route starts at the centroid of the highest-scoring selected
\* cell, and every later point is the centroid of the unvisited selected
\* cell nearest (haversine) to the point before it, the cell earlier in
\* score order when two are equally near.
C16_GreedyRoute ==
  Len(route.selected) > 0 =>
    /\ route.path[1] = CentroidOf(1)
    /\ \A k \in 2..Len(route.path) :
         \E i \in Unvisited(k) :
           /\ route.path[k] = CentroidOf(i)
           /\ \A j \in Unvisited(k) :
                LET di == haversine(route.path[k - 1], CentroidOf(i))
                    dj == haversine(route.path[k - 1], CentroidOf(j))
                IN di < dj \/ (di = dj /\ i <= j)

\* a route of at least three points whose second point is not the second
\* cell in score order
C16_Witness ==
  /\ Len(route.path) >= 3
  /\ route.path[1] = CentroidOf(1)
  /\ route.path[2] # CentroidOf(2)

\* C17: the scored cells are in non-increasing score order, the selection
\* is their first min(topN, number of cells), and no cell left out scores
\* strictly more than a selected one.
C17_TopSelection ==
  LET cells == route.cells
      sel == route.selected
  IN /\ \A i, j \in 1..Len(cells) : i < j => cells[i].score >= cells[j].score
     /\ Len(sel) = Min2(topN, Len(cells))
     /\ \A i \in 1..Len(sel) : sel[i] = cells[i]
     /\ \A i \in 1..Len(sel) : \A j \in (Len(sel) + 1)..Len(cells) :
          cells[j].score <= sel[i].score

\* two cells selected and a cell of strictly lower score left out
C17_Witness ==
  /\ topN = 2
  /\ Len(route.selected) = 2
  /\ Len(route.cells) > 2
  /\ route.cells[3].score < route.cells[2].score

\* the bucket of a position under the current grid
BucketOf(lng, lat) == KeyOf(Grid(polygon, gridSize), lng, lat)

\* the sum of the intensities of the heat samples from i on that fall in the
\* bucket key
RECURSIVE IntensityIn(_, _)
IntensityIn(key, i) ==
  IF i > Len(heatPoints) THEN 0
  ELSE (IF BucketOf(heatPoints[i][2], heatPoints[i][1]) = key THEN heatPoints[i][3] ELSE 0)
         + IntensityIn(key, i + 1)

\* the number of active detections that fall in the bucket key
DetectionsIn(key) ==
  Cardinality({i \in 1..Len(activeDetections) :
                 BucketOf(activeDetections[i].lng, activeDetections[i].lat) = key})

\* the largest number of active detections in one bucket, 0 without any
MaxDetections ==
  LET keys == {BucketOf(activeDetections[i].lng, activeDetections[i].lat) :
                 i \in 1..Len(activeDetections)} \ {<<>>}
  IN IF keys = {} THEN 0
     ELSE CHOOSE n \in {DetectionsIn(k) : k \in keys} :
            \A k \in keys : DetectionsIn(k) <= n

\* C18: the score of every scored cell is 0.7 times the mean intensity of
\* its samples (0 for a cell without samples) plus 0.3 times its detections
\* over the largest detection count of a bucket (0 when there is no
\* detection), and lies in [0, 1]; scores are in millionths.
C18_Score ==
  \A c \in 1..Len(route.cells) :
    LET cell == route.cells[c]
        key == <<cell.ix, cell.iy>>
        n == SamplesIn(cell)
        mean == IF n = 0 THEN 0 ELSE (IntensityIn(key, 1) * 1000) \div n
        detN == IF MaxDetections = 0 THEN 0
                ELSE (DetectionsIn(key) * 1000000) \div MaxDetections
    IN /\ cell.wAvg = mean
       /\ cell.det = DetectionsIn(key)
       /\ cell.score = (7 * mean + 3 * detN) \div 10
       /\ cell.score >= 0
       /\ cell.score <= 1000000

\* a cell holding detections and no sample beside a cell whose samples have
\* a positive mean intensity
C18_Witness ==
  \E c, d \in 1..Len(route.cells) :
    /\ route.cells[c].det > 0
    /\ SamplesIn(route.cells[c]) = 0
    /\ route.cells[c].score > 0
    /\ SamplesIn(route.cells[d]) > 0
    /\ route.cells[d].wAvg > 0

\* scored cells while no detection is active
C18_WitnessNoDetections ==
  /\ Len(route.cells) > 0
  /\ MaxDetections = 0

\* the number of the hotspot the n-th detection belongs to: a hotspot's
\* detections start at index 0
HotspotOf(n) == Cardinality({m \in 1..n : detectionsAll[m].id[3] = 0})

\* the number of detections of the j-th hotspot
DetectionCount(j) == Cardinality({n \in 1..Len(detectionsAll) : HotspotOf(n) = j})

\* C19: makeDetections emits, for every hotspot in input order, from one to
\* three detections with the hotspot's pass and the indices 0, 1, ..., so
\* there are at least as many detections as hotspots and at most three
\* times as many.
C19_DetectionsPerHotspot ==
  /\ \A n \in 1..Len(detectionsAll) :
       LET d == detectionsAll[n]
           j == HotspotOf(n)
       IN /\ j \in 1..Len(hotspotsAll)
          /\ d.passada = hotspotsAll[j].passada
          /\ d.id[1] = ToFixed5(hotspotsAll[j].lng)
          /\ d.id[2] = ToFixed5(hotspotsAll[j].lat)
          /\ d.id[3] \in 0..2
          /\ n = 1 => d.id[3] = 0
          /\ n > 1 => d.id[3] = 0 \/ d.id[3] = detectionsAll[n - 1].id[3] + 1
  /\ \A j \in 1..Len(hotspotsAll) : DetectionCount(j) \in 1..3
  /\ Len(detectionsAll) >= Len(hotspotsAll)
  /\ Len(detectionsAll) <= 3 * Len(hotspotsAll)

\* a hotspot with three detections before a hotspot with fewer
C19_Witness ==
  \E j \in 1..Len(hotspotsAll) :
    /\ DetectionCount(j) = 3
    /\ j < Len(hotspotsAll)
    /\ DetectionCount(j + 1) < 3

\* the state of the generator of makeDetections before the six calls of
\* the n-th detection: one call for each hotspot up to the detection's own
\* and six for each detection before it
StateBefore(n) ==
  AdvanceBy(DetectionSeed(seed + 99), HotspotOf(n) + 6 * (n - 1))

\* the jittered point of the n-th detection
JitteredOf(n) == JitterPoint(hotspotsAll[HotspotOf(n)], StateBefore(n))

\* C20: the position of a detection is its jittered point when that point
\* is inside the polygon and the centre of its hotspot otherwise, so the
\* position of every detection of the component satisfies pointInPolygon.
C20_DetectionPosition ==
  \A n \in 1..Len(detectionsAll) :
    LET d == detectionsAll[n]
        h == hotspotsAll[HotspotOf(n)]
    IN /\ <<d.lng, d.lat>> = IF pointInPolygon(JitteredOf(n), polygon)
                             THEN JitteredOf(n)
                             ELSE <<h.lng, h.lat>>
       /\ pointInPolygon(<<d.lng, d.lat>>, polygon)

\* a detection snapped back to its hotspot after a detection kept where it
\* was jittered to
C20_Witness ==
  \E n, m \in 1..Len(detectionsAll) :
    /\ n < m
    /\ pointInPolygon(JitteredOf(n), polygon)
    /\ JitteredOf(n) # <<hotspotsAll[HotspotOf(n)].lng, hotspotsAll[HotspotOf(n)].lat>>
    /\ ~pointInPolygon(JitteredOf(m), polygon)
    /\ detectionsAll[m].lng = hotspotsAll[HotspotOf(m)].lng
    /\ detectionsAll[m].lat = hotspotsAll[HotspotOf(m)].lat

\* the index in full of its k-th element whose pass is in sel
KthSelected(full, sel, k) ==
  CHOOSE i \in 1..Len(full) :
    /\ full[i].passada \in sel
    /\ Cardinality({j \in 1..i : full[j].passada \in sel}) = k

\* sub holds exactly the elements of full whose pass is in sel, in the
\* order of full
IsFilterOf(sub, full, sel) ==
  /\ Len(sub) = Cardinality({i \in 1..Len(full) : full[i].passada \in sel})
  /\ \A k \in 1..Len(sub) : sub[k] = full[KthSelected(full, sel, k)]

\* C21: a click on a chip leaves the full lists of hotspots and detections
\* as they were, and the active hotspots and detections after it are the
\* elements of those lists whose pass is selected, in the lists' order.
C21_TogglesFilter ==
  [][selected' # selected =>
       /\ hotspotsAll' = hotspotsAll
       /\ detectionsAll' = detectionsAll
       /\ IsFilterOf(activeHotspots', hotspotsAll, selected')
       /\ IsFilterOf(activeDetections', detectionsAll, selected')]_vars

\* after some clicks, one pass alone is selected and the active lists are
\* proper, non-empty parts of the full lists
C21_Witness ==
  /\ selected = {"plantio"}
  /\ Len(activeHotspots) = 1
  /\ Len(hotspotsAll) = 3
  /\ Len(activeDetections) > 0
  /\ Len(activeDetections) < Len(detectionsAll)

\* a step that changes an input of the EconomicCard
EconomicEdit ==
  \/ doseLHa' # doseLHa
  \/ precoPorL' # precoPorL
  \/ perdaHa' # perdaHa
  \/ eficacia' # eficacia

\* C22: a change of the grid size, of top-N or of an economic input leaves
\* the hotspots, the detections and the heat samples as they were; the
\* cells and the route change only with the grid size, top-N, the heat
\* samples, the active detections or the polygon, and never with an
\* economic input.
C22_RouteDependencies ==
  [][/\ (gridSize' # gridSize \/ topN' # topN \/ EconomicEdit) =>
          /\ hotspotsAll' = hotspotsAll
          /\ detectionsAll' = detectionsAll
          /\ heatPoints' = heatPoints
     /\ route' # route =>
          \/ gridSize' # gridSize
          \/ topN' # topN
          \/ heatPoints' # heatPoints
          \/ activeDetections' # activeDetections
          \/ polygon' # polygon
     /\ EconomicEdit => route' = route]_vars

\* every input edited: the route is that of the new grid size and top-N
C22_Witness ==
  /\ gridSize = 20
  /\ topN = 2
  /\ doseLHa = 3
  /\ precoPorL = 50
  /\ perdaHa = 650
  /\ eficacia = 80
  /\ Len(route.path) = 2
  /\ route = routeData(heatPoints, activeDetections, polygon, 20, 2)
  /\ route # routeData(heatPoints, activeDetections, polygon, 40, 8)

\* the passes whose membership differs between the selections s and t
Flipped(s, t) == (s \ t) \cup (t \ s)

\* C23: a click on a chip flips the membership of that pass in the
\* selection and of no other, a second click on the same chip restores the
\* selection, and a step that changes the selection changes one pass; the
\* subsets of the passes, the empty one among them, are reached by clicks
\* from the full selection.
C23_ChipFlips ==
  /\ [](\A p \in Passadas :
          /\ Flipped(selected, Toggled(selected, p)) = {p}
          /\ Toggled(Toggled(selected, p), p) = selected)
  /\ [][selected' # selected => \E p \in Passadas : Flipped(selected, selected') = {p}]_vars

\* every chip clicked once: the empty selection
C23_Witness ==
  /\ selected = {}
  /\ activeHotspots = <<>>
  /\ Len(hotspotsAll) = 3

\* the state but for detShown
Page == <<inputs, clock, memos, generators, selected, doseLHa, precoPorL, perdaHa, eficacia,
          gridSize, topN>>

\* what a step does to the detection shown
PanelStep ==
  /\ (detShown' # detShown /\ detShown' # DetNull) =>
       /\ \E i \in 1..Len(visibleDetections) : detShown' = visibleDetections[i]
       /\ Page' = Page
  /\ (detShown' # detShown /\ detShown' = DetNull) => Page' = Page
  /\ (selected' # selected \/ gridSize' # gridSize \/ topN' # topN \/ EconomicEdit) =>
       detShown' = detShown

\* C24: the evidence panel is closed at first; it comes to show a detection
\* only by a click on a marker visible then, and is closed only by its
\* close button or backdrop, neither changing anything else; a click on a
\* chip and an edit of the grid size, of top-N or of an economic input
\* leave the detection shown as it is.
C24_PanelChanges == detShown = DetNull /\ [][PanelStep]_vars

\* the panel shows a detection of a pass deselected since the click
C24_Witness ==
  /\ detShown # DetNull
  /\ detShown.passada \notin selected
  /\ \A i \in 1..Len(visibleDetections) : visibleDetections[i] # detShown

\* the column and the row of a position in the grid over the bounding box
ColumnOf(lng) == (lng - MinOf(Xs(polygon))) \div Grid(polygon, gridSize).dLng
RowOf(lat) == (lat - MinOf(Ys(polygon))) \div Grid(polygon, gridSize).dLat

\* the position is in a column and a row of the grid
InGrid(lng, lat) ==
  /\ 0 <= ColumnOf(lng) /\ ColumnOf(lng) < Grid(polygon, gridSize).nx
  /\ 0 <= RowOf(lat) /\ RowOf(lat) < Grid(polygon, gridSize).ny

\* the sum of the sample counts of the buckets from i on
RECURSIVE SumCounts(_, _)
SumCounts(acc, i) == IF i > Len(acc) THEN 0 ELSE acc[i].wCount + SumCounts(acc, i + 1)

\* the buckets after the loop of lines 801-809
SampleBuckets == BucketSamples(<<>>, Grid(polygon, gridSize), heatPoints, 1)

\* C25: every heat sample and every active detection falls in a column
\* 0 <= ix < nx and a row 0 <= iy < ny of the grid and is bucketed under
\* that one key, so no sample is dropped by the bounds check: the sample
\* counts of the buckets sum to the number of samples, no two buckets and no
\* two output cells have the same (ix, iy).
C25_Bucketing ==
  Len(heatPoints) > 0 =>
    /\ \A i \in 1..Len(heatPoints) :
         /\ InGrid(heatPoints[i][2], heatPoints[i][1])
         /\ BucketOf(heatPoints[i][2], heatPoints[i][1])
              = <<ColumnOf(heatPoints[i][2]), RowOf(heatPoints[i][1])>>
    /\ \A i \in 1..Len(activeDetections) :
         /\ InGrid(activeDetections[i].lng, activeDetections[i].lat)
         /\ BucketOf(activeDetections[i].lng, activeDetections[i].lat)
              = <<ColumnOf(activeDetections[i].lng), RowOf(activeDetections[i].lat)>>
    /\ SumCounts(SampleBuckets, 1) = Len(heatPoints)
    /\ \A i, j \in 1..Len(SampleBuckets) :
         SampleBuckets[i].key = SampleBuckets[j].key => i = j
    /\ \A i, j \in 1..Len(route.cells) :
         (route.cells[i].ix = route.cells[j].ix /\ route.cells[i].iy = route.cells[j].iy)
           => i = j

\* a sample in the last column of a grid whose columns overhang the
\* bounding box, beside a detection in another bucket
C25_Witness ==
  /\ Grid(polygon, gridSize).nx * Grid(polygon, gridSize).dLng
       > MaxOf(Xs(polygon)) - MinOf(Xs(polygon))
  /\ \E i \in 1..Len(heatPoints) :
       /\ ColumnOf(heatPoints[i][2]) = Grid(polygon, gridSize).nx - 1
       /\ \E j \in 1..Len(activeDetections) :
            BucketOf(activeDetections[j].lng, activeDetections[j].lat)
              # BucketOf(heatPoints[i][2], heatPoints[i][1])

\* C26: the rank of a cell in the GeoJSON features, the name of its KML
\* Placemark and the number of its marker are its position, from 1, in the
\* score order of the selected cells, whatever the order of the route; the
\* ranks are 1..k and the scores do not increase with the rank; the cell
\* of rank 1 is the first point of the route.
C26_Ranks ==
  LET sel == route.selected
      k == Len(sel)
  IN k > 0 =>
       /\ Len(route.geojson.features) = k + 1
       /\ Len(route.kml) = k + 1
       /\ \A i \in 1..k :
            /\ sel[i] = route.cells[i]
            /\ route.geojson.features[i].properties.rank = i
            /\ route.geojson.features[i].properties.centroid = <<sel[i].lng, sel[i].lat>>
            /\ route.geojson.features[i].geometry.coordinates = <<Ring(sel[i].bbox)>>
            /\ route.kml[i].name = i
            /\ route.kml[i].coordinates = Ring(sel[i].bbox)
            /\ Markers(sel)[i].number = i
            /\ Markers(sel)[i].position = <<sel[i].lat, sel[i].lng>>
       /\ \A i, j \in 1..k : i < j => sel[i].score >= sel[j].score
       /\ route.path[1] = <<sel[1].lat, sel[1].lng>>

\* three cells or more, and the cell of rank 2 is not the second point of
\* the route
C26_Witness ==
  /\ Len(route.selected) >= 3
  /\ route.geojson.features[2].properties.rank = 2
  /\ route.kml[2].name = 2
  /\ route.path[2] # <<route.selected[2].lat, route.selected[2].lng>>

====
